---- MODULE Spec2Model ----
(***************************************************************************)
(* A model of agent.py, the automated blog writer: the module-level        *)
(* start-up (credential check, entry guard), the driver main() with its    *)
(* five generation steps and save_outputs, and the pure functions slugify  *)
(* and the four structured-output parsers.                                 *)
(*                                                                         *)
(* Text is a sequence of symbols.  A symbol is one character ("a", ":",    *)
(* "\n", " ", "{", ...) or a run of letters that no operation of the       *)
(* program looks inside (a word such as "title").  Python values are       *)
(* tagged records.                                                         *)
(***************************************************************************)
EXTENDS Integers, Sequences, FiniteSets, TLC

VARIABLES
    pc,              \* position of the process / of main()
    env,             \* os.environ["OPENAI_API_KEY"] (or Unset)
    dotenv,          \* the entry of the local .env file (or Unset)
    argv,            \* the --topic argument of the command line (or Unset)
    OPENAI_API_KEY,  \* the module global of line 21
    api_key,         \* openai.api_key
    topic,           \* main's locals
    th,
    title,
    headlines,
    outline,
    post,
    seo,
    images,
    outs,            \* what call_model returned to each step (None: it raised)
    log,             \* the remote requests issued, in order
    fs,              \* what this run has put on disk
    meta,            \* save_outputs' in-memory metadata dict
    error,           \* the exception that ended the run
    exit_code,       \* the process's exit status
    fname,           \* the pure function applied on its own,
    arg,             \*   its arguments,
    ret              \*   and what it returned or raised

vars == <<pc, env, dotenv, argv, OPENAI_API_KEY, api_key, topic, th, title,
          headlines, outline, post, seo, images, outs, log, fs, meta, error,
          exit_code, fname, arg, ret>>

scriptVars == <<env, dotenv, argv, OPENAI_API_KEY, api_key>>
mainVars == <<topic, th, title, headlines, outline, post, seo, images, outs,
              log, fs, meta>>
funcVars == <<fname, arg, ret>>

----------------------------------------------------------------------------
(* Bounds of the model *)

\* Longest completion text drawn exhaustively for the parsers.
MaxLen == 4
\* Longest input string drawn exhaustively for slugify.
MaxSlugLen == 3
\* Largest `sections` argument drawn for generate_outline.
MaxSections == 2

----------------------------------------------------------------------------
(* Symbols *)

NL == "\n"
SP == " "
COLON == ":"
QUOTE == "\""
BSL == "\\"
HYPHEN == "-"

Min(S) == CHOOSE x \in S : \A y \in S : x <= y

Last(s) == s[Len(s)]

----------------------------------------------------------------------------
(* Python str operations *)

\* str.isspace of one character
IsSpace(c) == c \in {SP, NL, "\t", "\r"}

\* str.strip(): leading and trailing whitespace removed
RECURSIVE LStrip(_)
LStrip(s) == IF s # <<>> /\ IsSpace(Head(s)) THEN LStrip(Tail(s)) ELSE s

RECURSIVE RStrip(_)
RStrip(s) ==
    IF s # <<>> /\ IsSpace(Last(s)) THEN RStrip(SubSeq(s, 1, Len(s) - 1)) ELSE s

Strip(s) == RStrip(LStrip(s))

\* str.strip("-")
RECURSIVE LStripChar(_, _)
LStripChar(s, c) == IF s # <<>> /\ Head(s) = c THEN LStripChar(Tail(s), c) ELSE s

RECURSIVE RStripChar(_, _)
RStripChar(s, c) ==
    IF s # <<>> /\ Last(s) = c
    THEN RStripChar(SubSeq(s, 1, Len(s) - 1), c) ELSE s

StripChar(s, c) == RStripChar(LStripChar(s, c), c)

\* str.find(sep) + 1: the first place sep occurs in s, 0 when it does not
Find(s, sep) ==
    LET at == {i \in 1..(Len(s) - Len(sep) + 1) :
                  SubSeq(s, i, i + Len(sep) - 1) = sep}
    IN  IF at = {} THEN 0 ELSE Min(at)

\* `sep in s`
Contains(s, sep) == Find(s, sep) # 0

\* str.split(sep): always at least one part
RECURSIVE Split(_, _)
Split(s, sep) ==
    LET i == Find(s, sep)
    IN  IF i = 0 THEN <<s>>
        ELSE <<SubSeq(s, 1, i - 1)>> \o Split(SubSeq(s, i + Len(sep), Len(s)), sep)

\* str.split(sep, 1) of a string that holds sep
SplitOnce(s, sep) ==
    LET i == Find(s, sep)
    IN  IF i = 0 THEN <<s>>
        ELSE <<SubSeq(s, 1, i - 1), SubSeq(s, i + Len(sep), Len(s))>>

\* str.splitlines(): no empty last line
SplitLines(s) ==
    LET parts == Split(s, <<NL>>)
    IN  IF Last(parts) = <<>> THEN SubSeq(parts, 1, Len(parts) - 1) ELSE parts

\* sep.join(parts)
RECURSIVE Join(_, _)
Join(sep, parts) ==
    IF parts = <<>> THEN <<>>
    ELSE IF Len(parts) = 1 THEN Head(parts)
    ELSE Head(parts) \o sep \o Join(sep, Tail(parts))

\* [f(x) for x in xs if p(x)] building blocks
RECURSIVE StripEach(_)
StripEach(xs) ==
    IF xs = <<>> THEN <<>> ELSE <<Strip(Head(xs))>> \o StripEach(Tail(xs))

\* a list of strings without the ones that are blank
RECURSIVE NonBlank(_)
NonBlank(xs) ==
    IF xs = <<>> THEN <<>>
    ELSE (IF Strip(Head(xs)) # <<>> THEN <<Head(xs)>> ELSE <<>>)
         \o NonBlank(Tail(xs))

\* xs[a:b] for 0 <= a, 0 <= b (Python's half-open slice, clipped)
Slice(xs, a, b) ==
    LET hi == IF b < Len(xs) THEN b ELSE Len(xs)
    IN  SubSeq(xs, a + 1, hi)

----------------------------------------------------------------------------
(* Python values *)

PyNone == [t |-> "none"]
PyStr(s) == [t |-> "str", s |-> s]
PyInt(n) == [t |-> "int", n |-> n]
PyList(items) == [t |-> "list", items |-> items]
\* a dict keeps its keys in insertion order: ks[i] maps to vs[i]
PyDict(ks, vs) == [t |-> "dict", ks |-> ks, vs |-> vs]

IsDict(v) == v.t = "dict"
IsList(v) == v.t = "list"

KeyIndex(d, k) ==
    LET at == {i \in 1..Len(d.ks) : d.ks[i] = k}
    IN  IF at = {} THEN 0 ELSE Min(at)

DictHas(d, k) == KeyIndex(d, k) # 0

\* d[k] for a key the dict has
DictItem(d, k) == d.vs[KeyIndex(d, k)]

\* d.get(k, default)
DictGet(d, k, default) == IF DictHas(d, k) THEN DictItem(d, k) ELSE default

\* d[k] = v: a key already there keeps its place
DictSet(d, k, v) ==
    IF DictHas(d, k)
    THEN PyDict(d.ks, [d.vs EXCEPT ![KeyIndex(d, k)] = v])
    ELSE PyDict(Append(d.ks, k), Append(d.vs, v))

RECURSIVE StrList(_)
StrList(xs) ==
    IF xs = <<>> THEN <<>> ELSE <<PyStr(Head(xs))>> \o StrList(Tail(xs))

PyBool(b) == [t |-> "bool", b |-> b]

----------------------------------------------------------------------------
(* json.loads: a recursive-descent parser over the symbols.  A result is    *)
(* [ok, val, next]; ok = FALSE stands for the JSONDecodeError.              *)

ParseFail == [ok |-> FALSE, val |-> PyNone, next |-> 0]
ParseOk(v, n) == [ok |-> TRUE, val |-> v, next |-> n]

DigitChars == {"0", "1", "2", "3", "4", "5", "6", "7", "8", "9"}

DigitVal(c) ==
    CASE c = "0" -> 0 [] c = "1" -> 1 [] c = "2" -> 2 [] c = "3" -> 3
      [] c = "4" -> 4 [] c = "5" -> 5 [] c = "6" -> 6 [] c = "7" -> 7
      [] c = "8" -> 8 [] c = "9" -> 9

DigitChar(n) ==
    CASE n = 0 -> "0" [] n = 1 -> "1" [] n = 2 -> "2" [] n = 3 -> "3"
      [] n = 4 -> "4" [] n = 5 -> "5" [] n = 6 -> "6" [] n = 7 -> "7"
      [] n = 8 -> "8" [] n = 9 -> "9"

\* str(n) of an int n >= 0
RECURSIVE Digits(_)
Digits(n) ==
    IF n < 10 THEN <<DigitChar(n)>>
    ELSE Digits(n \div 10) \o <<DigitChar(n % 10)>>

RECURSIVE SkipWs(_, _)
SkipWs(s, i) == IF i <= Len(s) /\ IsSpace(s[i]) THEN SkipWs(s, i + 1) ELSE i

\* the characters of a string literal, from the one after the opening quote
RECURSIVE ParseChars(_, _, _)
ParseChars(s, i, acc) ==
    IF i > Len(s) THEN ParseFail
    ELSE IF s[i] = QUOTE THEN ParseOk(PyStr(acc), i + 1)
    ELSE IF s[i] = BSL THEN
        IF i + 1 > Len(s) THEN ParseFail
        ELSE IF s[i + 1] \in {QUOTE, BSL, "/"}
             THEN ParseChars(s, i + 2, Append(acc, s[i + 1]))
        ELSE IF s[i + 1] = "n" THEN ParseChars(s, i + 2, Append(acc, NL))
        ELSE IF s[i + 1] = "t" THEN ParseChars(s, i + 2, Append(acc, "\t"))
        ELSE IF s[i + 1] = "r" THEN ParseChars(s, i + 2, Append(acc, "\r"))
        ELSE ParseFail
    \* strict mode: no raw control character inside a string
    ELSE IF s[i] \in {NL, "\t", "\r"} THEN ParseFail
    ELSE ParseChars(s, i + 1, Append(acc, s[i]))

\* a run of digits from i, with the value read so far
RECURSIVE ParseDigits(_, _, _)
ParseDigits(s, i, n) ==
    IF i <= Len(s) /\ s[i] \in DigitChars
    THEN ParseDigits(s, i + 1, 10 * n + DigitVal(s[i]))
    ELSE ParseOk(PyInt(n), i)

RECURSIVE ParseValue(_, _)
RECURSIVE ParseElements(_, _, _)
RECURSIVE ParseMembers(_, _, _)

ParseValue(s, i) ==
    IF i > Len(s) THEN ParseFail
    ELSE IF s[i] = "null" THEN ParseOk(PyNone, i + 1)
    ELSE IF s[i] = "true" THEN ParseOk(PyBool(TRUE), i + 1)
    ELSE IF s[i] = "false" THEN ParseOk(PyBool(FALSE), i + 1)
    ELSE IF s[i] = QUOTE THEN ParseChars(s, i + 1, <<>>)
    ELSE IF s[i] = "0" THEN ParseOk(PyInt(0), i + 1)
    ELSE IF s[i] \in DigitChars THEN ParseDigits(s, i, 0)
    ELSE IF s[i] = "[" THEN
        LET j == SkipWs(s, i + 1)
        IN  IF j <= Len(s) /\ s[j] = "]" THEN ParseOk(PyList(<<>>), j + 1)
            ELSE ParseElements(s, j, <<>>)
    ELSE IF s[i] = "{" THEN
        LET j == SkipWs(s, i + 1)
        IN  IF j <= Len(s) /\ s[j] = "}" THEN ParseOk(PyDict(<<>>, <<>>), j + 1)
            ELSE ParseMembers(s, j, PyDict(<<>>, <<>>))
    ELSE ParseFail

\* the elements of a list, i at the start of one
ParseElements(s, i, acc) ==
    LET r == ParseValue(s, i)
        j == SkipWs(s, r.next)
    IN  IF ~r.ok \/ j > Len(s) THEN ParseFail
        ELSE IF s[j] = "]" THEN ParseOk(PyList(Append(acc, r.val)), j + 1)
        ELSE IF s[j] = ","
             THEN ParseElements(s, SkipWs(s, j + 1), Append(acc, r.val))
        ELSE ParseFail

\* the members of an object, i at the start of a key; a repeated key keeps
\* its last value
ParseMembers(s, i, d) ==
    IF i > Len(s) \/ s[i] # QUOTE THEN ParseFail
    ELSE
        LET k == ParseChars(s, i + 1, <<>>)
            c == SkipWs(s, k.next)
        IN  IF ~k.ok \/ c > Len(s) THEN ParseFail
            ELSE IF s[c] # COLON THEN ParseFail
            ELSE
                LET r == ParseValue(s, SkipWs(s, c + 1))
                    j == SkipWs(s, r.next)
                    d2 == DictSet(d, k.val.s, r.val)
                IN  IF ~r.ok \/ j > Len(s) THEN ParseFail
                    ELSE IF s[j] = "}" THEN ParseOk(d2, j + 1)
                    ELSE IF s[j] = ","
                         THEN ParseMembers(s, SkipWs(s, j + 1), d2)
                    ELSE ParseFail

\* json.loads(s): [ok, val]
JsonLoads(s) ==
    LET r == ParseValue(s, SkipWs(s, 1))
    IN  IF r.ok /\ SkipWs(s, r.next) > Len(s)
        THEN [ok |-> TRUE, val |-> r.val]
        ELSE [ok |-> FALSE, val |-> PyNone]

----------------------------------------------------------------------------
(* json.dump(v, f, indent=2, ensure_ascii=False) *)

RECURSIVE Escape(_)
Escape(s) ==
    IF s = <<>> THEN <<>>
    ELSE (CASE Head(s) = QUOTE -> <<BSL, QUOTE>>
            [] Head(s) = BSL -> <<BSL, BSL>>
            [] Head(s) = NL -> <<BSL, "n">>
            [] Head(s) = "\t" -> <<BSL, "t">>
            [] Head(s) = "\r" -> <<BSL, "r">>
            [] OTHER -> <<Head(s)>>) \o Escape(Tail(s))

Indent(lvl) == <<NL>> \o [i \in 1..(2 * lvl) |-> SP]

RECURSIVE JsonDumps(_, _)
RECURSIVE DumpItems(_, _)
RECURSIVE DumpMembers(_, _, _)

JsonDumps(v, lvl) ==
    CASE v.t = "none" -> <<"null">>
      [] v.t = "bool" -> IF v.b THEN <<"true">> ELSE <<"false">>
      [] v.t = "int" -> Digits(v.n)
      [] v.t = "str" -> <<QUOTE>> \o Escape(v.s) \o <<QUOTE>>
      [] v.t = "list" ->
            IF v.items = <<>> THEN <<"[", "]">>
            ELSE <<"[">> \o DumpItems(v.items, lvl + 1) \o Indent(lvl) \o <<"]">>
      [] v.t = "dict" ->
            IF v.ks = <<>> THEN <<"{", "}">>
            ELSE <<"{">> \o DumpMembers(v.ks, v.vs, lvl + 1) \o Indent(lvl)
                 \o <<"}">>

DumpItems(items, lvl) ==
    Indent(lvl) \o JsonDumps(Head(items), lvl)
    \o (IF Len(items) > 1 THEN <<",">> \o DumpItems(Tail(items), lvl) ELSE <<>>)

DumpMembers(ks, vs, lvl) ==
    Indent(lvl) \o <<QUOTE>> \o Escape(Head(ks)) \o <<QUOTE, COLON, SP>>
    \o JsonDumps(Head(vs), lvl)
    \o (IF Len(ks) > 1 THEN <<",">> \o DumpMembers(Tail(ks), Tail(vs), lvl)
        ELSE <<>>)

----------------------------------------------------------------------------
(* str(v) and repr(v), as the f-strings and str(th) use them *)

SQUOTE == "'"

RECURSIVE ReprChars(_, _)
ReprChars(s, q) ==
    IF s = <<>> THEN <<>>
    ELSE (CASE Head(s) = q -> <<BSL, q>>
            [] Head(s) = BSL -> <<BSL, BSL>>
            [] Head(s) = NL -> <<BSL, "n">>
            [] Head(s) = "\t" -> <<BSL, "t">>
            [] Head(s) = "\r" -> <<BSL, "r">>
            [] OTHER -> <<Head(s)>>) \o ReprChars(Tail(s), q)

\* repr of a str: single quotes, unless it holds ' and no "
ReprStr(s) ==
    LET q == IF Contains(s, <<SQUOTE>>) /\ ~Contains(s, <<QUOTE>>)
             THEN QUOTE ELSE SQUOTE
    IN  <<q>> \o ReprChars(s, q) \o <<q>>

RECURSIVE Repr(_)
RECURSIVE ReprItems(_)
RECURSIVE ReprMembers(_, _)

Repr(v) ==
    CASE v.t = "none" -> <<"None">>
      [] v.t = "bool" -> IF v.b THEN <<"True">> ELSE <<"False">>
      [] v.t = "int" -> Digits(v.n)
      [] v.t = "str" -> ReprStr(v.s)
      [] v.t = "list" -> <<"[">> \o ReprItems(v.items) \o <<"]">>
      [] v.t = "dict" -> <<"{">> \o ReprMembers(v.ks, v.vs) \o <<"}">>

ReprItems(items) ==
    IF items = <<>> THEN <<>>
    ELSE Repr(Head(items))
         \o (IF Len(items) > 1 THEN <<",", SP>> \o ReprItems(Tail(items))
             ELSE <<>>)

ReprMembers(ks, vs) ==
    IF ks = <<>> THEN <<>>
    ELSE ReprStr(Head(ks)) \o <<COLON, SP>> \o Repr(Head(vs))
         \o (IF Len(ks) > 1 THEN <<",", SP>> \o ReprMembers(Tail(ks), Tail(vs))
             ELSE <<>>)

\* str(v): a str is itself, anything else its repr
ToStr(v) == IF v.t = "str" THEN v.s ELSE Repr(v)

----------------------------------------------------------------------------
(* Results of a call: what it returned or the exception it raised, and the  *)
(* number of remote requests it issued                                      *)

NoExc == "none"
Return(v, n) == [exc |-> NoExc, val |-> v, calls |-> n]
Raise(e, n) == [exc |-> e, val |-> PyNone, calls |-> n]

\* a local that is not assigned yet
NotYet == [t |-> "unset"]

\* a word is one symbol
W(w) == <<w>>

----------------------------------------------------------------------------
(* slugify (lines 28-29) *)

\* str.isalnum of one character; U+03D2 is an upper-case letter with no
\* lower-case form, U+0130 lower-cases to "i" followed by U+0307
IsAlnum(c) == c \in {"a", "b", "i", "A", "B", "U+03D2", "U+0130"} \cup DigitChars

\* str.isupper of one character
IsUpper(c) == c \in {"A", "B", "U+03D2", "U+0130"}

\* c.lower(): the characters one character lower-cases to
LowerChar(c) ==
    CASE c = "A" -> <<"a">>
      [] c = "B" -> <<"b">>
      [] c = "U+0130" -> <<"i", "U+0307">>
      [] OTHER -> <<c>>

\* s.lower()
RECURSIVE Lower(_)
Lower(s) == IF s = <<>> THEN <<>> ELSE LowerChar(Head(s)) \o Lower(Tail(s))

\* "".join(c if c.isalnum() else "-" for c in s)
HyphenateAs(s) == [i \in 1..Len(s) |-> IF IsAlnum(s[i]) THEN s[i] ELSE HYPHEN]

\* slugify without the .lower()
slugify_no_lower(s) == StripChar(HyphenateAs(s), HYPHEN)

slugify(s) == StripChar(HyphenateAs(Lower(s)), HYPHEN)

----------------------------------------------------------------------------
(* call_model (lines 32-42).  A response of the remote endpoint is an error *)
(* (the request raises), a body without the choice/content fields, or a     *)
(* body with the completion text.                                           *)

RespError == [kind |-> "error"]
RespMalformed == [kind |-> "malformed"]
RespOk(text) == [kind |-> "ok", content |-> text]

call_model(resp) ==
    CASE resp.kind = "error" -> Raise("APIError", 1)
      [] resp.kind = "malformed" -> Raise("KeyError", 1)
      [] resp.kind = "ok" -> Return(PyStr(Strip(resp.content)), 1)

----------------------------------------------------------------------------
(* generate_title_and_headlines (lines 45-59) *)

\* generate_title_and_headlines asking the model again when the parse fails
generate_title_retry(resp) ==
    LET c == call_model(resp)
        out == c.val.s
        j == JsonLoads(out)
        lines == StripEach(NonBlank(SplitLines(out)))
    IN  IF c.exc # NoExc THEN c
        ELSE IF j.ok THEN Return(j.val, 1)
        ELSE IF lines = <<>> THEN Raise("IndexError", 2)
        ELSE Return(PyDict(<<W("title"), W("headline_variations")>>,
                           <<PyStr(lines[1]),
                             PyList(StrList(Slice(lines, 1, 4)))>>), 2)

generate_title_and_headlines(resp) ==
    LET c == call_model(resp)
        out == c.val.s
        j == JsonLoads(out)
        lines == StripEach(NonBlank(SplitLines(out)))
    IN  IF c.exc # NoExc THEN c
        ELSE IF j.ok THEN Return(j.val, 1)
        \* lines[0] of an empty list, inside the except clause
        ELSE IF lines = <<>> THEN Raise("IndexError", 1)
        ELSE Return(PyDict(<<W("title"), W("headline_variations")>>,
                           <<PyStr(lines[1]),
                             PyList(StrList(Slice(lines, 1, 4)))>>), 1)

----------------------------------------------------------------------------
(* generate_outline (lines 62-84) *)

\* [p.strip() for p in out.split("\n\n") if p.strip()]
Paragraphs(out) == StripEach(NonBlank(Split(out, <<NL, NL>>)))

\* the body of the for loop, lines 78-83
OutlineEntry(p) ==
    LET hs == IF Contains(p, <<COLON>>)
              THEN SplitOnce(p, <<COLON>>)
              ELSE <<Split(p, <<NL>>)[1],
                     Join(<<SP>>, Tail(Split(p, <<NL>>)))>>
    IN  PyDict(<<W("heading"), W("summary")>>,
               <<PyStr(Strip(hs[1])), PyStr(Strip(hs[2]))>>)

RECURSIVE OutlineEntries(_)
OutlineEntries(ps) ==
    IF ps = <<>> THEN <<>>
    ELSE <<OutlineEntry(Head(ps))>> \o OutlineEntries(Tail(ps))

\* json.loads(out)["outline"] succeeds
HasOutlineKey(j) == j.ok /\ IsDict(j.val) /\ DictHas(j.val, W("outline"))

\* generate_outline without the [:sections] of line 77
generate_outline_unsliced(resp, sections) ==
    LET c == call_model(resp)
        out == c.val.s
        j == JsonLoads(out)
    IN  IF c.exc # NoExc THEN c
        ELSE IF HasOutlineKey(j) THEN Return(DictItem(j.val, W("outline")), 1)
        ELSE Return(PyList(OutlineEntries(Paragraphs(out))), 1)

generate_outline(resp, sections) ==
    LET c == call_model(resp)
        out == c.val.s
        j == JsonLoads(out)
    IN  IF c.exc # NoExc THEN c
        ELSE IF HasOutlineKey(j) THEN Return(DictItem(j.val, W("outline")), 1)
        ELSE Return(PyList(OutlineEntries(Slice(Paragraphs(out), 0, sections))), 1)

----------------------------------------------------------------------------
(* Iterating the outline, as generate_full_post and generate_image_prompts  *)
(* do before they call the model                                            *)

IsIterable(v) == v.t \in {"list", "dict", "str"}

\* what `for sec in v` yields
IterItems(v) ==
    CASE v.t = "list" -> v.items
      [] v.t = "dict" -> StrList(v.ks)
      [] v.t = "str" -> [i \in 1..Len(v.s) |-> PyStr(<<v.s[i]>>)]
      [] OTHER -> <<>>

\* the exception of sec['heading'], if any
HeadingExc(sec) ==
    IF IsDict(sec)
    THEN (IF DictHas(sec, W("heading")) THEN NoExc ELSE "KeyError")
    ELSE "TypeError"

\* the exception of [sec['heading'] for sec in v], if any
HeadingsExc(v) ==
    LET items == IterItems(v)
        bad == {i \in 1..Len(items) : HeadingExc(items[i]) # NoExc}
    IN  IF ~IsIterable(v) THEN "TypeError"
        ELSE IF bad = {} THEN NoExc
        ELSE HeadingExc(items[Min(bad)])

----------------------------------------------------------------------------
(* generate_full_post (lines 87-102) *)

generate_full_post(outline_, resp) ==
    LET c == call_model(resp)
    IN  IF HeadingsExc(outline_) # NoExc THEN Raise(HeadingsExc(outline_), 0)
        ELSE c

----------------------------------------------------------------------------
(* generate_seo_assets (lines 105-117) *)

\* generate_seo_assets with the call_model of line 113 inside the try
generate_seo_call_in_try(resp) ==
    LET c == call_model(resp)
        out == IF c.exc = NoExc THEN c.val.s ELSE <<>>
        j == JsonLoads(out)
    IN  IF j.ok THEN Return(j.val, 1)
        ELSE Return(PyDict(<<W("meta_description"), W("keywords")>>,
                           <<PyStr(Split(out, <<NL>>)[1]), PyList(<<>>)>>), 1)

generate_seo_assets(resp) ==
    LET c == call_model(resp)
        out == c.val.s
        j == JsonLoads(out)
    IN  IF c.exc # NoExc THEN c
        ELSE IF j.ok THEN Return(j.val, 1)
        ELSE Return(PyDict(<<W("meta_description"), W("keywords")>>,
                           <<PyStr(Split(out, <<NL>>)[1]), PyList(<<>>)>>), 1)

----------------------------------------------------------------------------
(* generate_image_prompts (lines 120-133) *)

\* "\n".join(...) takes strings only
JoinExc(v) ==
    LET items == IterItems(v)
    IN  IF \E i \in 1..Len(items) : DictItem(items[i], W("heading")).t # "str"
        THEN "TypeError" ELSE NoExc

\* the exception of outline[0], if any
FirstExc(v) ==
    CASE v.t = "list" -> IF v.items = <<>> THEN "IndexError" ELSE NoExc
      [] v.t = "str" -> IF v.s = <<>> THEN "IndexError" ELSE NoExc
      [] v.t = "dict" -> "KeyError"
      [] OTHER -> "TypeError"

generate_image_prompts(outline_, resp) ==
    LET c == call_model(resp)
        out == c.val.s
        j == JsonLoads(out)
        heading == DictItem(outline_.items[1], W("heading")).s
    IN  IF HeadingsExc(outline_) # NoExc THEN Raise(HeadingsExc(outline_), 0)
        ELSE IF JoinExc(outline_) # NoExc THEN Raise("TypeError", 0)
        ELSE IF c.exc # NoExc THEN c
        ELSE IF j.ok THEN Return(j.val, 1)
        \* outline[0] of an empty outline, inside the except clause
        ELSE IF FirstExc(outline_) # NoExc THEN Raise(FirstExc(outline_), 1)
        ELSE Return(PyList(<<PyDict(<<W("prompt"), W("caption")>>,
                                    <<PyStr(<<"Photo", SP, "of", SP>> \o heading),
                                      PyStr(heading)>>)>>), 1)

----------------------------------------------------------------------------
(* Inputs *)

Q(w) == <<QUOTE, w, QUOTE>>

\* the empty completion
TextEmpty == <<>>
\* six paragraphs, the first with a colon, the second of two lines, with
\* white space around the text
TextParas ==
    <<SP, "a", COLON, "b", NL, NL, "a", NL, "b", NL, NL, "a", NL, NL, "b", NL, NL,
      "a", NL, NL, "b", NL>>
\* a JSON document cut short: {"title": "a
TextCut == <<"{">> \o Q("title") \o <<COLON, SP, QUOTE, "a">>
\* {"title": "a", "headline_variations": ["a", "b"],
\*  "outline": [{"heading": "a", "summary": "b"}],
\*  "meta_description": "a", "keywords": ["b"]}
DocFull ==
    <<"{">> \o Q("title") \o <<COLON, SP>> \o Q("a") \o <<",", SP>>
    \o Q("headline_variations") \o <<COLON, SP, "[">> \o Q("a") \o <<",", SP>>
    \o Q("b") \o <<"]", ",", NL, SP>>
    \o Q("outline") \o <<COLON, SP, "[", "{">> \o Q("heading") \o <<COLON, SP>>
    \o Q("a") \o <<",", SP>> \o Q("summary") \o <<COLON, SP>> \o Q("b")
    \o <<"}", "]", ",", NL, SP>>
    \o Q("meta_description") \o <<COLON, SP>> \o Q("a") \o <<",", SP>>
    \o Q("keywords") \o <<COLON, SP, "[">> \o Q("b") \o <<"]", "}">>
\* [{"prompt": "a", "caption": "b"}]
DocList ==
    <<"[", "{">> \o Q("prompt") \o <<COLON, SP>> \o Q("a") \o <<",", SP>>
    \o Q("caption") \o <<COLON, SP>> \o Q("b") \o <<"}", "]">>
\* {"outline": 1}
DocBad == <<"{">> \o Q("outline") \o <<COLON, SP, "1", "}">>

\* the completions the driver's runs draw from
DriverTexts == {TextEmpty, TextParas, TextCut, DocFull, DocList, DocBad}

Responses == {RespError, RespMalformed} \cup {RespOk(x) : x \in DriverTexts}

\* --topic values
Topics == {<<>>, <<"A", SP, "b">>}

\* datetime.utcnow() readings: the second of lines 137 and 147 may be later
Times == {10, 11}

\* strftime("%Y%m%d%H%M%S"): digits only
StrfTime(now) == Digits(now)

\* isoformat()
IsoFormat(now) == <<"T">> \o Digits(now)

\* credentials
Keys == {<<"sk-1">>, <<"sk-2">>}

\* all texts over an alphabet, up to a length
AllTexts(alphabet, n) == UNION {[1..k -> alphabet] : k \in 0..n}

TextAlphabet == {"a", COLON, NL, SP, "1"}
SlugAlphabet == {"a", "A", "1", HYPHEN, SP, "U+03D2", "U+0130"}

----------------------------------------------------------------------------
(* main (lines 160-189) and save_outputs (lines 136-157) *)

\* the sections argument of line 177
Sections == 5

Absent == [state |-> "absent"]
Partial == [state |-> "partial"]
Written(text) == [state |-> "complete", content |-> text]

\* line 173 with str() around the .get()
TitleOf_str(th_) ==
    IF IsDict(th_) THEN PyStr(ToStr(DictGet(th_, W("title"), PyNone)))
    ELSE PyStr(ToStr(th_))

\* line 173
TitleOf(th_) ==
    IF IsDict(th_) THEN DictGet(th_, W("title"), PyNone) ELSE PyStr(ToStr(th_))

\* line 174
HeadlinesOf(th_) ==
    IF IsDict(th_) THEN DictGet(th_, W("headline_variations"), PyList(<<>>))
    ELSE PyList(<<>>)

\* lines 140-148
MetaOf(topic_, title_, headlines_, outline_, seo_, images_, now) ==
    PyDict(<<W("topic"), W("title"), W("headlines"), W("outline"), W("seo"),
             W("images"), W("generated_at")>>,
           <<PyStr(topic_), title_, headlines_, outline_, seo_, images_,
             PyStr(IsoFormat(now) \o <<"Z">>)>>)

\* lines 153-154
PostFile(title_, post_) == <<"#", SP>> \o ToStr(title_) \o <<NL, NL>> \o post_.s

\* an uncaught exception leaves main: traceback, exit status 1
Abort(e) ==
    /\ pc' = "Aborted"
    /\ error' = e
    /\ exit_code' = PyInt(1)

Requests(step, n) == [i \in 1..n |-> step]

\* lines 171-174
TitleStep ==
    /\ pc = "Start"
    /\ \E resp \in Responses :
         LET r == generate_title_and_headlines(resp)
         IN  /\ log' = log \o Requests("title", r.calls)
             /\ outs' = [outs EXCEPT !.title = call_model(resp).val]
             /\ IF r.exc = NoExc
                THEN /\ th' = r.val
                     /\ title' = TitleOf(r.val)
                     /\ headlines' = HeadlinesOf(r.val)
                     /\ pc' = "TitleGenerated"
                     /\ UNCHANGED <<error, exit_code>>
                ELSE /\ Abort(r.exc)
                     /\ UNCHANGED <<th, title, headlines>>
    /\ UNCHANGED <<topic, outline, post, seo, images, fs, meta>>
    /\ UNCHANGED <<scriptVars, funcVars>>

\* lines 176-177
OutlineStep ==
    /\ pc = "TitleGenerated"
    /\ \E resp \in Responses :
         LET r == generate_outline(resp, Sections)
         IN  /\ log' = log \o Requests("outline", r.calls)
             /\ outs' = [outs EXCEPT !.outline = call_model(resp).val]
             /\ IF r.exc = NoExc
                THEN /\ outline' = r.val
                     /\ pc' = "OutlineGenerated"
                     /\ UNCHANGED <<error, exit_code>>
                ELSE /\ Abort(r.exc)
                     /\ UNCHANGED outline
    /\ UNCHANGED <<topic, th, title, headlines, post, seo, images, fs, meta>>
    /\ UNCHANGED <<scriptVars, funcVars>>

\* lines 179-180
PostStep ==
    /\ pc = "OutlineGenerated"
    /\ \E resp \in Responses :
         LET r == generate_full_post(outline, resp)
         IN  /\ log' = log \o Requests("post", r.calls)
             /\ outs' = [outs EXCEPT !.post =
                            IF r.calls = 0 THEN NotYet ELSE call_model(resp).val]
             /\ IF r.exc = NoExc
                THEN /\ post' = r.val
                     /\ pc' = "PostGenerated"
                     /\ UNCHANGED <<error, exit_code>>
                ELSE /\ Abort(r.exc)
                     /\ UNCHANGED post
    /\ UNCHANGED <<topic, th, title, headlines, outline, seo, images, fs, meta>>
    /\ UNCHANGED <<scriptVars, funcVars>>

\* lines 182-183
SeoStep ==
    /\ pc = "PostGenerated"
    /\ \E resp \in Responses :
         LET r == generate_seo_assets(resp)
         IN  /\ log' = log \o Requests("seo", r.calls)
             /\ outs' = [outs EXCEPT !.seo = call_model(resp).val]
             /\ IF r.exc = NoExc
                THEN /\ seo' = r.val
                     /\ pc' = "SeoGenerated"
                     /\ UNCHANGED <<error, exit_code>>
                ELSE /\ Abort(r.exc)
                     /\ UNCHANGED seo
    /\ UNCHANGED <<topic, th, title, headlines, outline, post, images, fs, meta>>
    /\ UNCHANGED <<scriptVars, funcVars>>

\* lines 185-186
ImagesStep ==
    /\ pc = "SeoGenerated"
    /\ \E resp \in Responses :
         LET r == generate_image_prompts(outline, resp)
         IN  /\ log' = log \o Requests("images", r.calls)
             /\ outs' = [outs EXCEPT !.images =
                            IF r.calls = 0 THEN NotYet ELSE call_model(resp).val]
             /\ IF r.exc = NoExc
                THEN /\ images' = r.val
                     /\ pc' = "ImagesGenerated"
                     /\ UNCHANGED <<error, exit_code>>
                ELSE /\ Abort(r.exc)
                     /\ UNCHANGED images
    /\ UNCHANGED <<topic, th, title, headlines, outline, post, seo, fs, meta>>
    /\ UNCHANGED <<scriptVars, funcVars>>

\* save_outputs writing post.md before metadata.json
SaveOrder_post_first == <<"makedirs", "post.md", "metadata.json">>

\* what save_outputs does first, second and third (lines 139, 149, 152)
SaveOrder == <<"makedirs", "metadata.json", "post.md">>

\* the position of main while save_outputs has done n of its three steps
SavePc(n) ==
    CASE n = 0 -> "ImagesGenerated"
      [] n = 1 -> "DirCreated"
      [] n = 2 -> "FirstFileWritten"

\* the position after step n of save_outputs
AfterSave(n) == IF n = 3 THEN "Saved" ELSE SavePc(n)

SaveIndex(what) == CHOOSE i \in 1..3 : SaveOrder[i] = what

\* lines 137-148: the slug, os.makedirs, the metadata dict
MakeDirs ==
    /\ pc = SavePc(SaveIndex("makedirs") - 1)
    /\ \E t2 \in Times, ok \in BOOLEAN :
         \* the clock reads t1 at line 137 and t2, no earlier, at line 147
         LET t1 == Min(Times)
         IN
         /\ t1 <= t2
         /\ IF ok
            THEN /\ fs' = [fs EXCEPT !.dir =
                       PyStr(slugify(topic \o <<HYPHEN>> \o StrfTime(t1)))]
                 /\ meta' = MetaOf(topic, title, headlines, outline, seo, images, t2)
                 /\ pc' = AfterSave(SaveIndex("makedirs"))
                 /\ UNCHANGED <<error, exit_code>>
            ELSE /\ Abort("OSError")
                 /\ UNCHANGED <<fs, meta>>
    /\ UNCHANGED <<topic, th, title, headlines, outline, post, seo, images, outs, log>>
    /\ UNCHANGED <<scriptVars, funcVars>>

\* lines 149-150: open(..., "w") creates the file, json.dump fills it
WriteMetadata ==
    /\ pc = SavePc(SaveIndex("metadata.json") - 1)
    /\ \E outcome \in {"ok", "open fails", "write fails"} :
         CASE outcome = "ok" ->
                /\ fs' = [fs EXCEPT !.metadata = Written(JsonDumps(meta, 0))]
                /\ pc' = AfterSave(SaveIndex("metadata.json"))
                /\ UNCHANGED <<error, exit_code>>
           [] outcome = "open fails" ->
                /\ Abort("OSError")
                /\ UNCHANGED fs
           [] outcome = "write fails" ->
                /\ Abort("OSError")
                /\ fs' = [fs EXCEPT !.metadata = Partial]
    /\ UNCHANGED <<topic, th, title, headlines, outline, post, seo, images, outs,
                   log, meta>>
    /\ UNCHANGED <<scriptVars, funcVars>>

\* lines 152-157: post.md, the print, the return
WritePost ==
    /\ pc = SavePc(SaveIndex("post.md") - 1)
    /\ \E outcome \in {"ok", "open fails", "write fails"} :
         CASE outcome = "ok" ->
                /\ fs' = [fs EXCEPT !.post = Written(PostFile(title, post))]
                /\ pc' = AfterSave(SaveIndex("post.md"))
                /\ UNCHANGED <<error, exit_code>>
           [] outcome = "open fails" ->
                /\ Abort("OSError")
                /\ UNCHANGED fs
           [] outcome = "write fails" ->
                /\ Abort("OSError")
                /\ fs' = [fs EXCEPT !.post = Partial]
    /\ UNCHANGED <<topic, th, title, headlines, outline, post, seo, images, outs,
                   log, meta>>
    /\ UNCHANGED <<scriptVars, funcVars>>

\* line 189, and main returns
Finish ==
    /\ pc = "Saved"
    /\ pc' = "Done"
    /\ exit_code' = PyInt(0)
    /\ UNCHANGED <<error, mainVars, scriptVars, funcVars>>

NoOuts == [title |-> NotYet, outline |-> NotYet, post |-> NotYet, seo |-> NotYet,
           images |-> NotYet]

NoFiles == [dir |-> PyNone, metadata |-> Absent, post |-> Absent]

\* nothing of main has run
MainIdle ==
    /\ th = NotYet /\ title = NotYet /\ headlines = NotYet /\ outline = NotYet
    /\ post = NotYet /\ seo = NotYet /\ images = NotYet /\ meta = NotYet
    /\ outs = NoOuts /\ log = <<>> /\ fs = NoFiles

FuncIdle == fname = "" /\ arg = NotYet /\ ret = NotYet

\* main() is entered: the module's start-up has passed, the arguments are parsed
Init ==
    /\ pc = "Start"
    /\ env \in {PyStr(<<"sk-1">>)}
    /\ OPENAI_API_KEY = env
    /\ api_key = env
    /\ dotenv = PyNone
    /\ topic \in Topics
    /\ argv = PyStr(topic)
    /\ MainIdle
    /\ FuncIdle
    /\ error = NoExc
    /\ exit_code = PyNone

Next ==
    \/ TitleStep
    \/ OutlineStep
    \/ PostStep
    \/ SeoStep
    \/ ImagesStep
    \/ MakeDirs
    \/ WriteMetadata
    \/ WritePost
    \/ Finish

Spec == Init /\ [][Next]_vars

----------------------------------------------------------------------------
(* The script executed as a process: the module's top level (lines 19-25    *)
(* and 192-193)                                                             *)

\* load_dotenv() (line 19): an entry of .env is exported unless the variable
\* is already in the environment
LoadDotenv ==
    /\ pc = "ProcessStart"
    /\ env' = IF env = PyNone THEN dotenv ELSE env
    /\ pc' = "EnvLoaded"
    /\ UNCHANGED <<dotenv, argv, OPENAI_API_KEY, api_key, error, exit_code>>
    /\ UNCHANGED <<mainVars, funcVars>>

\* line 22 as `OPENAI_API_KEY is None`
NotKey_none_only(k) == k = PyNone

\* `not OPENAI_API_KEY` (line 22): None or the empty string
NotKey(k) == k = PyNone \/ k = PyStr(<<>>)

\* lines 21-25, and the function definitions up to line 190
CheckCredential ==
    /\ pc = "EnvLoaded"
    /\ OPENAI_API_KEY' = env
    /\ IF NotKey(env)
       THEN /\ pc' = "Exited"
            /\ error' = "RuntimeError"
            /\ exit_code' = PyInt(1)
            /\ UNCHANGED api_key
       ELSE /\ pc' = "Defined"
            /\ api_key' = env
            /\ UNCHANGED <<error, exit_code>>
    /\ UNCHANGED <<env, dotenv, argv>>
    /\ UNCHANGED <<mainVars, funcVars>>

\* the names bound in the module's namespace when line 192 is reached
ModuleNames ==
    {"__name__", "__doc__", "os", "argparse", "json", "datetime", "load_dotenv",
     "openai", "OPENAI_API_KEY", "slugify", "call_model",
     "generate_title_and_headlines", "generate_outline", "generate_full_post",
     "generate_seo_assets", "generate_image_prompts", "save_outputs", "main"}

\* line 192 reads the name _name_
GuardName == "_name_"

\* lines 192-193: the guard's name is looked up; main() is called only if
\* the lookup succeeds and the comparison holds
EntryGuard ==
    /\ pc = "Defined"
    /\ IF GuardName \in ModuleNames
       THEN /\ pc' = "Start"
            /\ UNCHANGED <<error, exit_code>>
       ELSE /\ pc' = "Exited"
            /\ error' = "NameError"
            /\ exit_code' = PyInt(1)
    /\ UNCHANGED <<scriptVars, mainVars, funcVars>>

EnvValues == {PyNone, PyStr(<<>>)} \cup {PyStr(k) : k \in Keys}

ArgValues == {PyNone} \cup {PyStr(x) : x \in Topics}

ScriptInit ==
    /\ pc = "ProcessStart"
    /\ env \in EnvValues
    /\ dotenv \in EnvValues
    /\ argv \in ArgValues
    /\ OPENAI_API_KEY = NotYet
    /\ api_key = PyNone
    /\ topic = NotYet
    /\ MainIdle
    /\ FuncIdle
    /\ error = NoExc
    /\ exit_code = PyNone

ScriptNext ==
    \/ LoadDotenv
    \/ CheckCredential
    \/ EntryGuard

ScriptSpec == ScriptInit /\ [][ScriptNext]_vars

----------------------------------------------------------------------------
(* The pure functions, applied to every input of a bounded set *)

\* outlines as generate_outline's fallback builds them
Entry(h, s_) == PyDict(<<W("heading"), W("summary")>>, <<PyStr(h), PyStr(s_)>>)

FuncOutlines ==
    {PyList(<<>>), PyList(<<Entry(<<"a">>, <<"b">>)>>),
     PyList(<<Entry(<<"b">>, <<>>), Entry(<<"a">>, <<"b">>)>>)}

FuncTexts == AllTexts(TextAlphabet, MaxLen) \cup DriverTexts

NoArg == [s |-> <<>>, text |-> <<>>, sections |-> 0, outline |-> PyList(<<>>)]

FuncInit ==
    /\ pc = "Call"
    /\ \/ /\ fname = "slugify"
          /\ \E x \in AllTexts(SlugAlphabet, MaxSlugLen) :
               arg = [NoArg EXCEPT !.s = x]
       \/ /\ fname \in {"generate_title_and_headlines", "generate_seo_assets"}
          /\ \E x \in FuncTexts : arg = [NoArg EXCEPT !.text = x]
       \/ /\ fname = "generate_outline"
          /\ \E x \in FuncTexts, n \in 0..MaxSections \cup {Sections} :
               arg = [NoArg EXCEPT !.text = x, !.sections = n]
       \/ /\ fname = "generate_image_prompts"
          /\ \E x \in FuncTexts, o \in FuncOutlines :
               arg = [NoArg EXCEPT !.text = x, !.outline = o]
    /\ ret = NotYet
    /\ env = PyNone /\ dotenv = PyNone /\ argv = PyNone
    /\ OPENAI_API_KEY = NotYet /\ api_key = PyNone
    /\ topic = NotYet
    /\ MainIdle
    /\ error = NoExc
    /\ exit_code = PyNone

Returns(r) ==
    /\ pc = "Call"
    /\ pc' = "Returned"
    /\ ret' = r
    /\ UNCHANGED <<fname, arg, error, exit_code, scriptVars, mainVars>>

ApplySlugify ==
    /\ fname = "slugify"
    /\ Returns(Return(PyStr(slugify(arg.s)), 0))

ApplyTitle ==
    /\ fname = "generate_title_and_headlines"
    /\ Returns(generate_title_and_headlines(RespOk(arg.text)))

ApplyOutline ==
    /\ fname = "generate_outline"
    /\ Returns(generate_outline(RespOk(arg.text), arg.sections))

ApplySeo ==
    /\ fname = "generate_seo_assets"
    /\ Returns(generate_seo_assets(RespOk(arg.text)))

ApplyImages ==
    /\ fname = "generate_image_prompts"
    /\ Returns(generate_image_prompts(arg.outline, RespOk(arg.text)))

FuncNext ==
    \/ ApplySlugify
    \/ ApplyTitle
    \/ ApplyOutline
    \/ ApplySeo
    \/ ApplyImages

FuncSpec == FuncInit /\ [][FuncNext]_vars

----------------------------------------------------------------------------
(* Properties of the driver's runs (Spec) *)

StepOrder == <<"title", "outline", "post", "seo", "images">>

\* the generation steps that have returned when main is at a position
StepsReturned(p) ==
    CASE p = "Start" -> 0
      [] p = "TitleGenerated" -> 1
      [] p = "OutlineGenerated" -> 2
      [] p = "PostGenerated" -> 3
      [] p = "SeoGenerated" -> 4
      [] OTHER -> 5

InSaveOrAfter == pc \in {"DirCreated", "FirstFileWritten", "Saved", "Done"}

\* C1: the remote requests of a run are issued in the fixed order title,
\* outline, post, seo, images, each at most once (so at most five, also when
\* a completion fails to parse); a step that has returned has issued exactly
\* its own request after those of the steps before it; and save_outputs is
\* entered only when all five steps have returned.
C1_FixedOrder ==
    /\ Len(log) <= Len(StepOrder)
    /\ \A i \in 1..Len(log) : log[i] = StepOrder[i]
    /\ pc # "Aborted" => log = SubSeq(StepOrder, 1, StepsReturned(pc))
    /\ (InSaveOrAfter \/ fs # NoFiles) =>
          /\ log = StepOrder
          /\ \A k \in DOMAIN outs : outs[k].t = "str"
          /\ images # NotYet

\* a run that reached Done although the SEO completion did not parse
C1_Witness ==
    /\ pc = "Done"
    /\ ~JsonLoads(outs.seo.s).ok
    /\ log = StepOrder

\* the steps whose remote call failed
FailedSteps == {k \in DOMAIN outs : outs[k] = PyNone}

StepIndex(k) == CHOOSE i \in 1..Len(StepOrder) : StepOrder[i] = k

\* C3: when the remote call of a step fails, the run is aborted at that
\* step: no later step has issued a request, save_outputs was not entered,
\* nothing is on disk, and the exit status is not 0.  (No action leaves the
\* aborted state, so Done is never reached.)
C3_RemoteFailureAborts ==
    \A k \in FailedSteps :
        /\ pc = "Aborted"
        /\ error \in {"APIError", "KeyError"}
        /\ exit_code \notin {PyNone, PyInt(0)}
        /\ log = SubSeq(StepOrder, 1, StepIndex(k))
        /\ \A l \in DOMAIN outs : StepIndex(l) > StepIndex(k) => outs[l] = NotYet
        /\ fs = NoFiles
        /\ meta = NotYet

\* the remote call of the third step failed
C3_Witness == outs.post = PyNone /\ pc = "Aborted" /\ Len(log) = 3

\* the metadata.json of this run, parsed again
MetadataOnDisk == JsonLoads(fs.metadata.content)

MetadataWritten == fs.metadata.state = "complete"

\* a list of entries that each have a heading and a summary
IsOutlineOf(v, lengths) ==
    /\ IsList(v)
    /\ Len(v.items) \in lengths
    /\ \A i \in 1..Len(v.items) :
          /\ IsDict(v.items[i])
          /\ DictHas(v.items[i], W("heading"))
          /\ DictHas(v.items[i], W("summary"))

\* C6 as the spec states it: the outline generate_outline returns has
\* exactly `sections` entries with a heading and a summary, so the outline
\* of a written metadata.json has exactly 5 entries.
C6_ExactlySections ==
    /\ outline # NotYet => IsOutlineOf(outline, {Sections})
    /\ pc = "Saved" =>
          LET m == MetadataOnDisk
          IN  /\ m.ok
              /\ IsOutlineOf(DictGet(m.val, W("outline"), PyNone), {Sections})

\* C6, amended: when the completion holds no JSON object with an "outline"
\* key, generate_outline returns a list of at most `sections` entries, each
\* with a heading and a summary; when it does, the value of that key is
\* returned as it is; and in a run that reached Saved the outline of
\* metadata.json is the value generate_outline returned.
C6_AtMostSections ==
    /\ outline # NotYet =>
          LET j == JsonLoads(outs.outline.s)
          IN  IF HasOutlineKey(j)
              THEN outline = DictItem(j.val, W("outline"))
              ELSE IsOutlineOf(outline, 0..Sections)
    /\ pc = "Saved" =>
          LET m == MetadataOnDisk
          IN  /\ m.ok
              /\ IsDict(m.val)
              /\ DictGet(m.val, W("outline"), PyNone) = outline

\* a run that reached Saved with a fallback outline of fewer than 5 entries
C6_Witness ==
    /\ pc = "Saved"
    /\ ~JsonLoads(outs.outline.s).ok
    /\ IsList(outline)
    /\ Len(outline.items) < Sections
    /\ DictItem(meta, W("outline")) = outline

MetadataKeys ==
    <<W("topic"), W("title"), W("headlines"), W("outline"), W("seo"),
      W("images"), W("generated_at")>>

\* the metadata.json of a run that reached Saved parses to the in-memory dict, which has exactly the seven
\* keys, the --topic input, and the outline, seo and images values the
\* steps returned
RoundTrip ==
    /\ MetadataOnDisk = [ok |-> TRUE, val |-> meta]
    /\ meta.ks = MetadataKeys
    /\ DictItem(meta, W("topic")) = argv
    /\ DictItem(meta, W("outline")) = outline
    /\ DictItem(meta, W("seo")) = seo
    /\ DictItem(meta, W("images")) = images
    /\ DictItem(meta, W("generated_at")).t = "str"

\* C7 as the spec states it: the round trip, with the title and headlines
\* being values the title step returned.
C7_ReturnedValues ==
    pc = "Saved" =>
        /\ RoundTrip
        /\ IsDict(th)
        /\ DictHas(th, W("title"))
        /\ DictItem(meta, W("title")) = DictItem(th, W("title"))
        /\ DictHas(th, W("headline_variations"))
        /\ DictItem(meta, W("headlines")) = DictItem(th, W("headline_variations"))

\* C7, amended: the round trip, with the title and headlines being the
\* "title" and "headline_variations" entries of the dict the title step
\* returned, null and [] for an entry the dict lacks, and str(value) and []
\* when the step returned something that is not a dict.
C7_RoundTrip ==
    pc = "Saved" =>
        /\ RoundTrip
        /\ DictItem(meta, W("title")) =
              (IF ~IsDict(th) THEN PyStr(ToStr(th))
               ELSE IF DictHas(th, W("title")) THEN DictItem(th, W("title"))
               ELSE PyNone)
        /\ DictItem(meta, W("headlines")) =
              (IF IsDict(th) /\ DictHas(th, W("headline_variations"))
               THEN DictItem(th, W("headline_variations"))
               ELSE PyList(<<>>))

\* a run that reached Saved after the title step returned a list
C7_Witness ==
    /\ pc = "Saved"
    /\ IsList(th)
    /\ MetadataWritten
    /\ DictItem(meta, W("title")).t = "str"

\* C10: the directory is made before metadata.json is written and post.md
\* is written only after metadata.json is complete; a failed metadata.json
\* write leaves no post.md; a failed post.md write aborts the run with
\* metadata.json still on disk; Saved and Done have both files.
C10_WriteOrder ==
    /\ fs.metadata # Absent => fs.dir # PyNone
    /\ fs.post # Absent => MetadataWritten
    /\ fs.metadata = Partial => fs.post = Absent /\ pc = "Aborted"
    /\ fs.post = Partial =>
          /\ pc = "Aborted"
          /\ error = "OSError"
          /\ exit_code = PyInt(1)
          /\ fs.metadata = Written(JsonDumps(meta, 0))
    /\ pc \in {"Saved", "Done"} =>
          MetadataWritten /\ fs.post.state = "complete"

\* the post.md write failed after metadata.json was written
C10_Witness ==
    /\ fs.post = Partial
    /\ MetadataWritten
    /\ pc = "Aborted"

----------------------------------------------------------------------------
(* Properties of the script's execution (ScriptSpec) *)

\* neither the environment nor the .env file supplies a credential
CredentialAbsent ==
    \/ env = PyStr(<<>>)
    \/ env = PyNone /\ (dotenv = PyNone \/ dotenv = PyStr(<<>>))

FailedAtStartup ==
    /\ error = "RuntimeError"
    /\ exit_code = PyInt(1)

\* C8: with the credential absent the process gets no further than the
\* check of line 22: it ends there with the RuntimeError, openai.api_key is
\* never set, no argument is parsed, no request is issued, nothing is
\* written and main is not entered.
C8_MissingCredentialFatal ==
    CredentialAbsent =>
        /\ pc \in {"ProcessStart", "EnvLoaded", "Exited"}
        /\ pc = "Exited" => FailedAtStartup
        /\ api_key = PyNone
        /\ topic = NotYet
        /\ MainIdle

\* the process ended at the credential check, the variable being set but
\* empty
C8_Witness ==
    /\ CredentialAbsent
    /\ env = PyStr(<<>>)
    /\ pc = "Exited"
    /\ FailedAtStartup

\* C4: a process that has the credential and a --topic, and in which no
\* remote call and no file write has failed, ends only in Done, with exit
\* status 0 and both files written.
C4_RunReachesDone ==
    (/\ ~CredentialAbsent
     /\ argv # PyNone
     /\ error \notin {"APIError", "KeyError", "OSError"}) =>
        /\ pc \notin {"Exited", "Aborted"}
        /\ pc = "Done" =>
              /\ exit_code = PyInt(0)
              /\ MetadataWritten
              /\ fs.post.state = "complete"

----------------------------------------------------------------------------
(* Properties of the pure functions (FuncSpec) *)

Returned(f) == pc = "Returned" /\ fname = f

Parsers ==
    {"generate_title_and_headlines", "generate_outline", "generate_seo_assets",
     "generate_image_prompts"}

\* the completion the parser saw
Completion == Strip(arg.text)

ParseFails == ~JsonLoads(Completion).ok

\* C2: a parser that was given a completion (and an outline) has returned a
\* value; it has not raised.
C2_ParsersNeverRaise ==
    (pc = "Returned" /\ fname \in Parsers) => ret.exc = NoExc

\* the non-blank lines of the completion, stripped
NonBlankLines == StripEach(NonBlank(SplitLines(Completion)))

C9_TitleShape ==
    (Returned("generate_title_and_headlines") /\ ParseFails) =>
        /\ ret.exc = NoExc
        /\ IsDict(ret.val)
        /\ ret.val.ks = <<W("title"), W("headline_variations")>>
        /\ ret.val.vs[1] = PyStr(NonBlankLines[1])
        /\ ret.val.vs[2] = PyList(StrList(Slice(NonBlankLines, 1, 4)))

C9_OutlineShape ==
    (Returned("generate_outline") /\ ParseFails) =>
        /\ ret.exc = NoExc
        /\ IsOutlineOf(ret.val, 0..arg.sections)
        /\ Len(ret.val.items) <= Len(Paragraphs(Completion))
        /\ (Len(ret.val.items) = arg.sections
            \/ Len(ret.val.items) = Len(Paragraphs(Completion)))
        /\ \A i \in 1..Len(ret.val.items) :
              /\ ret.val.items[i].ks = <<W("heading"), W("summary")>>
              /\ ret.val.items[i] = OutlineEntry(Paragraphs(Completion)[i])

C9_SeoShape ==
    (Returned("generate_seo_assets") /\ ParseFails) =>
        /\ ret.exc = NoExc
        /\ ret.val = PyDict(<<W("meta_description"), W("keywords")>>,
                            <<PyStr(Split(Completion, <<NL>>)[1]), PyList(<<>>)>>)

C9_ImagesShape ==
    (Returned("generate_image_prompts") /\ ParseFails) =>
        /\ ret.exc = NoExc
        /\ IsList(ret.val)
        /\ Len(ret.val.items) = 1
        /\ ret.val.items[1].ks = <<W("prompt"), W("caption")>>
        /\ ret.val.items[1].vs[2] = DictItem(arg.outline.items[1], W("heading"))

\* C9: whenever the strict parse of the completion fails, each parser has
\* returned its fallback value of the well-formed shape: the title dict of
\* the first non-blank line and the next at most 3, the outline list of at
\* most `sections` entries in paragraph order, the SEO dict of the first
\* line and no keywords, the one image prompt of the first outline heading.
C9_FallbackShape ==
    /\ C9_TitleShape
    /\ C9_OutlineShape
    /\ C9_SeoShape
    /\ C9_ImagesShape

SlugChars == {ret.val.s[i] : i \in 1..Len(ret.val.s)}

NoHyphenAtEnds ==
    ret.val.s # <<>> => (Head(ret.val.s) # HYPHEN /\ Last(ret.val.s) # HYPHEN)

\* C5 as the spec states it: the slug holds only lower-case alphanumeric
\* characters (alphanumeric, and not upper case) and hyphens, and neither
\* starts nor ends with a hyphen.
C5_LowercaseSlug ==
    Returned("slugify") =>
        /\ \A c \in SlugChars : c = HYPHEN \/ (IsAlnum(c) /\ ~IsUpper(c))
        /\ NoHyphenAtEnds

\* C5, amended: the slug holds only hyphens and alphanumeric characters
\* that lower-casing leaves as they are (an upper-case letter stays only if
\* it has no lower-case form), and neither starts nor ends with a hyphen.
C5_SlugChars ==
    Returned("slugify") =>
        /\ \A c \in SlugChars :
              c = HYPHEN \/ (IsAlnum(c) /\ LowerChar(c) = <<c>>)
        /\ NoHyphenAtEnds

\* slugify has lower-cased a letter, replaced a space by a hyphen and
\* trimmed the hyphens at both ends
C5_Witness ==
    /\ Returned("slugify")
    /\ arg.s = <<HYPHEN, "A", SP>>
    /\ ret.val.s = <<"a">>

====
